---- MODULE Spec2Model ----
(***************************************************************************)
(* Code Context Graph (CCG) builder of codebase_genius: CodeAnalyzer       *)
(* (code_analyzer.py), the per-file loop of CodeGenius.generate_docs       *)
(* (code_genius.py), get_file_content (repo_utils.py) and                  *)
(* DocGenie.generate_mermaid_diagram (doc_genie.py).                       *)
(*                                                                         *)
(* Text is modelled at token level.  A line is the sequence of its lexical *)
(* tokens: a word (a maximal run of \w characters), one whitespace         *)
(* character " ", or one punctuation character.  A file's text is the      *)
(* sequence of its lines (file_content.splitlines()).  A path is a         *)
(* directory plus the base name cut into segments, a segment being a stem  *)
(* without dots ("a") or a dot followed by a stem (".py").                 *)
(***************************************************************************)
EXTENDS Integers, Sequences, FiniteSets, TLC

\* Longest file text, in lines.
MaxLines == 2

\* Most operations (analyze_file, query_ccg) in one session.
MaxCalls == 2

-----------------------------------------------------------------------------
(* Text *)

Space == " "

Punct == {"(", ")", ":", "=", ",", "[", "]", "'", "+"}

\* \w+ : a token that is neither whitespace nor punctuation
IsWord(t) == t # Space /\ t \notin Punct

\* def f(x=F(1)):
DefLine == <<"def", " ", "f", "(", "x", "=", "F", "(", "1", ")", ")", ":">>

\*  class F(f (1)):
ClassLine == <<" ", "class", " ", "F", "(", "f", " ", "(", "1", ")", ")", ":">>

\*  return a(print(f(F(1))))
CallLine ==
    <<" ", "return", " ", "a", "(", "print", "(", "f", "(", "F", "(", "1",
      ")", ")", ")", ")">>

LinePool == {DefLine, ClassLine, CallLine}

Contents == UNION {[1..n -> LinePool] : n \in 0..MaxLines}

\* str.lower over the words of the model
Lower(s) ==
    CASE s = "F" -> "f"
      [] s = "Error" -> "error"
      [] s = "Func_A" -> "func_a"
      [] s = "MyClass" -> "myclass"
      [] OTHER -> s

RECURSIVE lstrip(_)
lstrip(s) == IF s # <<>> /\ Head(s) = Space THEN lstrip(Tail(s)) ELSE s

RECURSIVE rstrip(_)
rstrip(s) ==
    IF s # <<>> /\ s[Len(s)] = Space THEN rstrip(SubSeq(s, 1, Len(s) - 1)) ELSE s

\* variant: only the trailing whitespace is removed
strip_trailing_only(s) == rstrip(s)

\* str.strip
strip(s) == rstrip(lstrip(s))

\* def_regex.match(s), r"^(?:class|def)\s+(\w+)": <<group(1)>>, or <<>> for None
def_regex_match(s) ==
    IF Len(s) >= 3 /\ s[1] \in {"class", "def"} /\ s[2] = Space
    THEN LET r == lstrip(Tail(s))
         IN  IF r # <<>> /\ IsWord(r[1]) THEN <<r[1]>> ELSE <<>>
    ELSE <<>>

\* "class" if line.strip().startswith("class") else "function", for a
\* stripped line that def_regex matches
def_type(s) == IF s[1] = "class" THEN "class" ELSE "function"

RECURSIVE SkipSpacesBack(_, _)
SkipSpacesBack(line, j) ==
    IF j >= 1 /\ line[j] = Space THEN SkipSpacesBack(line, j - 1) ELSE j

\* call_regex.findall(line), r"(\w+)\s*\(": the captured words from position
\* i on, left to right
RECURSIVE call_regex_findall_from(_, _)
call_regex_findall_from(line, i) ==
    IF i > Len(line) THEN <<>>
    ELSE LET j == SkipSpacesBack(line, i - 1)
         IN  IF line[i] = "(" /\ j >= 1 /\ IsWord(line[j])
             THEN <<line[j]>> \o call_regex_findall_from(line, i + 1)
             ELSE call_regex_findall_from(line, i + 1)

call_regex_findall(line) == call_regex_findall_from(line, 1)

\* the literal words of the list in the reference filter
Keywords ==
    {"def", "class", "return", "if", "for", "while", "with", "try", "except",
     "print", "self"}

-----------------------------------------------------------------------------
(* Paths *)

ExtSegs == {".py", ".txt"}

APy == <<"a", ".py">>
BPy == <<"b", ".py">>
ATxt == <<"a", ".txt">>
DotPy == <<".py">>

BaseNames == {APy, BPy, ATxt, DotPy}

local_path == "repo"

\* os.path.join(local_path, f)
path_join(dir, f) == [dir |-> dir, base |-> f]

Paths == {path_join(local_path, b) : b \in BaseNames}

\* os.path.basename
basename(file_path) == file_path.base

\* os.path.splitext(file_path)[1]: the last dot segment of the base name,
\* unless it is the leading one
splitext(file_path) ==
    LET b == file_path.base
    IN  IF Len(b) >= 2 /\ b[Len(b)] \in ExtSegs THEN b[Len(b)] ELSE ""

RECURSIVE concat(_)
concat(segs) == IF segs = <<>> THEN "" ELSE Head(segs) \o concat(Tail(segs))

\* s.replace(ext, ""): every occurrence of ext is removed
replace_ext(segs, ext) == concat(SelectSeq(segs, LAMBDA s : s # ext))

\* self.parsers after _load_languages
parsers == {".py"}

-----------------------------------------------------------------------------
(* CodeAnalyzer *)

VARIABLES
    ccg_nodes,           \* {node_id: CCGNode}
    ccg_relationships,   \* [CCGRelationship]
    node_counter,
    rel_line,            \* history: the line each relationship was found on
    pre,                 \* history: the store before the last operation
    last,                \* history: the last operation and its arguments
    n_ops,               \* history: operations so far
    pc,                  \* generate_docs: "idle", or "analyzing" inside the loop
    python_files,        \* generate_docs: the list the loop iterates over
    file_index,          \* generate_docs: files of the list already processed
    repo_files,          \* the cloned repository: base name -> file
    docs_pre,            \* history: the store when generate_docs began
    mermaid_code         \* generate_docs: the diagram written to <repo>_ccg.mmd

analyzer_vars == <<ccg_nodes, ccg_relationships, node_counter, rel_line>>

docs_vars == <<pc, python_files, file_index, repo_files, docs_pre, mermaid_code>>

vars == <<analyzer_vars, pre, last, n_ops, docs_vars>>

CCGNode(node_type, name, file_path, start_line) ==
    [node_type |-> node_type, name |-> name, file_path |-> file_path,
     start_line |-> start_line]

CCGRelationship(source_id, target_id, rel_type) ==
    [source_id |-> source_id, target_id |-> target_id, rel_type |-> rel_type]

\* variant: the increment is missing
get_next_node_id_no_increment(counter) ==
    [node_counter |-> counter, id |-> "N" \o ToString(counter)]

\* get_next_node_id: the counter after the call and the id returned
get_next_node_id(counter) ==
    [node_counter |-> counter + 1, id |-> "N" \o ToString(counter + 1)]

\* self.ccg_nodes[id] = node
put_node(nodes, id, node) ==
    [k \in DOMAIN nodes \cup {id} |-> IF k = id THEN node ELSE nodes[k]]

\* the store an operation works on; rel_line rides along as history
Store == [ccg_nodes |-> ccg_nodes, ccg_relationships |-> ccg_relationships,
          node_counter |-> node_counter, rel_line |-> rel_line]

\* variant: the node is never put into ccg_nodes
new_node_not_stored(st, node) ==
    LET a == get_next_node_id(st.node_counter)
    IN  [st |-> [st EXCEPT !.node_counter = a.node_counter], id |-> a.id]

\* id = self.get_next_node_id(); self.ccg_nodes[id] = node
new_node(st, node) ==
    LET a == get_next_node_id(st.node_counter)
    IN  [st |-> [st EXCEPT !.ccg_nodes = put_node(@, a.id, node),
                           !.node_counter = a.node_counter],
         id |-> a.id]

\* variant: insert(0, rel) instead of append(rel)
append_rel_at_front(st, rel, line_num) ==
    [st EXCEPT !.ccg_relationships = <<rel>> \o @,
               !.rel_line = <<line_num>> \o @]

\* self.ccg_relationships.append(rel), found on line line_num
append_rel(st, rel, line_num) ==
    [st EXCEPT !.ccg_relationships = Append(@, rel),
               !.rel_line = Append(@, line_num)]

\* step 2 of analyze_file, lines i..: a node and a 'contains' relationship
\* per definition line; r = [st, definitions]
RECURSIVE scan_definitions(_, _, _, _, _)
scan_definitions(r, lines, i, file_path, module_id) ==
    IF i > Len(lines) THEN r
    ELSE LET s == strip(lines[i])
             match == def_regex_match(s)
         IN  IF match = <<>>
             THEN scan_definitions(r, lines, i + 1, file_path, module_id)
             ELSE LET n == new_node(r.st, CCGNode(def_type(s), match[1], file_path, i))
                      st2 == append_rel(n.st,
                                        CCGRelationship(module_id, n.id, "contains"), i)
                      defs2 == Append(r.definitions,
                                      [id |-> n.id, name |-> match[1], start_line |-> i])
                  IN  scan_definitions([st |-> st2, definitions |-> defs2],
                                       lines, i + 1, file_path, module_id)

\* variant: the list is scanned first to last
current_def_forward(definitions, k, line_num, module) ==
    LET started == {j \in 1..Len(definitions) : line_num >= definitions[j].start_line}
    IN  IF started = {} THEN module
        ELSE LET j == CHOOSE x \in started : \A y \in started : x <= y
             IN  [id |-> definitions[j].id, name |-> definitions[j].name]

\* for d in reversed(definitions): if line_num >= d["start_line"]: ... break
\* (k is the position the backward scan has reached; module is the default)
RECURSIVE current_def(_, _, _, _)
current_def(definitions, k, line_num, module) ==
    IF k = 0 THEN module
    ELSE IF line_num >= definitions[k].start_line
         THEN [id |-> definitions[k].id, name |-> definitions[k].name]
         ELSE current_def(definitions, k - 1, line_num, module)

\* variant: current_def_name is missing from the list
is_reference_keywords_only(call_name, current_def_name) ==
    call_name \notin Keywords

\* the filter of the reference loop
is_reference(call_name, current_def_name) ==
    call_name \notin ({current_def_name} \cup Keywords)

\* variant: the matches of a line are taken right to left
RECURSIVE emit_calls_reversed(_, _, _, _)
emit_calls_reversed(st, call_matches, cur, line_num) ==
    IF call_matches = <<>> THEN st
    ELSE LET call_name == call_matches[Len(call_matches)]
             st2 == IF is_reference(call_name, cur.name)
                    THEN append_rel(st, CCGRelationship(cur.id, call_name, "calls"),
                                    line_num)
                    ELSE st
         IN  emit_calls_reversed(st2, SubSeq(call_matches, 1, Len(call_matches) - 1),
                                 cur, line_num)

\* for call_name in call_matches: ...
RECURSIVE emit_calls(_, _, _, _)
emit_calls(st, call_matches, cur, line_num) ==
    IF call_matches = <<>> THEN st
    ELSE LET call_name == Head(call_matches)
             st2 == IF is_reference(call_name, cur.name)
                    THEN append_rel(st, CCGRelationship(cur.id, call_name, "calls"),
                                    line_num)
                    ELSE st
         IN  emit_calls(st2, Tail(call_matches), cur, line_num)

\* step 3 of analyze_file, lines i..
RECURSIVE scan_calls(_, _, _, _, _)
scan_calls(st, lines, i, definitions, module) ==
    IF i > Len(lines) THEN st
    ELSE LET cur == current_def(definitions, Len(definitions), i, module)
         IN  scan_calls(emit_calls(st, call_regex_findall(lines[i]), cur, i),
                        lines, i + 1, definitions, module)

\* analyze_file past the parser lookup: the CCG construction
build_ccg(st, file_path, file_content, ext) ==
    LET module_name == replace_ext(basename(file_path), ext)
        m == new_node(st, CCGNode("module", module_name, file_path, 1))
        r == scan_definitions([st |-> m.st, definitions |-> <<>>],
                              file_content, 1, file_path, m.id)
    IN  scan_calls(r.st, file_content, 1, r.definitions,
                   [id |-> m.id, name |-> module_name])

\* variant: the early return is missing
analyze_file_any_extension(st, file_path, file_content) ==
    build_ccg(st, file_path, file_content, splitext(file_path))

\* CodeAnalyzer.analyze_file(file_path, file_content, repo_id)
analyze_file(st, file_path, file_content) ==
    LET ext == splitext(file_path)
    IN  IF ext \notin parsers THEN st
        ELSE build_ccg(st, file_path, file_content, ext)

\* variant: the target is compared without lower()
query_ccg_case_sensitive(nodes, rels, query) ==
    LET stripped == strip(query)
        target_name == [k \in 1..Len(stripped) |-> Lower(stripped[k])]
        hit(rel) == /\ rel.rel_type = "calls"
                    /\ <<rel.target_id>> = target_name
                    /\ rel.source_id \in DOMAIN nodes
        sel == SelectSeq(rels, hit)
    IN  [k \in 1..Len(sel) |->
            CCGRelationship(nodes[sel[k].source_id].name, sel[k].target_id,
                            sel[k].rel_type)]

\* variant: the source is returned as the id, not as the node's name
query_ccg_raw_source(nodes, rels, query) ==
    LET stripped == strip(query)
        target_name == [k \in 1..Len(stripped) |-> Lower(stripped[k])]
        hit(rel) == /\ rel.rel_type = "calls"
                    /\ <<Lower(rel.target_id)>> = target_name
                    /\ rel.source_id \in DOMAIN nodes
    IN  SelectSeq(rels, hit)

\* CodeAnalyzer.query_ccg(query)
query_ccg(nodes, rels, query) ==
    LET stripped == strip(query)
        target_name == [k \in 1..Len(stripped) |-> Lower(stripped[k])]
        hit(rel) == /\ rel.rel_type = "calls"
                    /\ <<Lower(rel.target_id)>> = target_name
                    /\ rel.source_id \in DOMAIN nodes
        sel == SelectSeq(rels, hit)
    IN  [k \in 1..Len(sel) |->
            CCGRelationship(nodes[sel[k].source_id].name, sel[k].target_id,
                            sel[k].rel_type)]

\* query strings
Queries == {<<"f">>, <<" ", "F", " ">>, <<"a">>}

NoCall == [op |-> "none", file_path |-> path_join("", <<>>), file_content |-> <<>>,
           read_failed |-> FALSE, query |-> <<>>, results |-> <<>>]

EmptyStore == [ccg_nodes |-> <<>>, ccg_relationships |-> <<>>, node_counter |-> 0,
               rel_line |-> <<>>]

\* no diagram written yet
NoDiagram == [head |-> "", nodes |-> {}, edges |-> <<>>]

Init ==
    /\ ccg_nodes = <<>>
    /\ ccg_relationships = <<>>
    /\ node_counter = 0
    /\ rel_line = <<>>
    /\ pre = EmptyStore
    /\ last = NoCall
    /\ n_ops = 0
    /\ pc = "idle"
    /\ python_files = <<>>
    /\ file_index = 0
    /\ repo_files = <<>>
    /\ docs_pre = EmptyStore
    /\ mermaid_code = NoDiagram

SetStore(st) ==
    /\ ccg_nodes' = st.ccg_nodes
    /\ ccg_relationships' = st.ccg_relationships
    /\ node_counter' = st.node_counter
    /\ rel_line' = st.rel_line

AnalyzeFile ==
    /\ n_ops < MaxCalls
    /\ \E file_path \in Paths, file_content \in Contents :
          /\ SetStore(analyze_file(Store, file_path, file_content))
          /\ last' = [NoCall EXCEPT !.op = "analyze_file", !.file_path = file_path,
                                    !.file_content = file_content]
    /\ pre' = Store
    /\ n_ops' = n_ops + 1
    /\ UNCHANGED docs_vars

QueryCcg ==
    /\ n_ops < MaxCalls
    /\ \E query \in Queries :
          last' = [NoCall EXCEPT !.op = "query_ccg", !.query = query,
                                 !.results = query_ccg(ccg_nodes, ccg_relationships,
                                                       query)]
    /\ pre' = Store
    /\ n_ops' = n_ops + 1
    /\ UNCHANGED <<analyzer_vars, docs_vars>>

Next == AnalyzeFile \/ QueryCcg

Spec == Init /\ [][Next]_vars

-----------------------------------------------------------------------------
(* CodeGenius.generate_docs: the per-file loop *)

\* the texts of the files of a cloned repository
RepoContents == UNION {[1..n -> {ClassLine, CallLine}] : n \in 0..MaxLines}

\* a file of the cloned repository: its text, or unreadable
RepoFiles ==
    {[readable |-> TRUE, content |-> c] : c \in RepoContents}
        \cup {[readable |-> FALSE, content |-> <<>>]}

\* f"Error reading file: {e}", one line
ErrorLine ==
    <<"Error", " ", "reading", " ", "file", ":", " ", "[", "Errno", " ", "13", "]",
      " ", "Permission", " ", "denied">>

\* get_file_content(file_path): the text, and whether the call raised
get_file_content(file) ==
    [raised |-> FALSE,
     value |-> IF file.readable THEN file.content ELSE <<ErrorLine>>]

\* f.endswith(".py")
endswith_py(f) == f # <<>> /\ f[Len(f)] = ".py"

\* the keys of repo_map_result["file_tree"], in directory order
FileTrees ==
    {t \in UNION {[1..n -> BaseNames] : n \in 0..Cardinality(BaseNames)} :
        \A i, j \in 1..Len(t) : i # j => t[i] # t[j]}

\* variant: a failed read leaves the loop
loop_step_abort(st, files, index, file) ==
    IF file.readable
    THEN [st |-> analyze_file(st, files[index + 1], file.content),
          file_index |-> index + 1]
    ELSE [st |-> st, file_index |-> Len(files)]

\* one iteration of "for file_path in python_files: try: ... except ..."
loop_step(st, files, index, file) ==
    LET r == get_file_content(file)
    IN  IF r.raised
        THEN [st |-> st, file_index |-> index + 1]
        ELSE [st |-> analyze_file(st, files[index + 1], r.value),
              file_index |-> index + 1]

\* generate_docs up to the loop: the repository is mapped, the python files
\* are listed
GenerateDocs ==
    /\ pc = "idle"
    /\ \E tree \in FileTrees :
          LET names == SelectSeq(tree, endswith_py)
          IN  /\ n_ops + Len(names) <= MaxCalls
              /\ python_files' = [k \in 1..Len(names) |-> path_join(local_path, names[k])]
              /\ repo_files' \in [{names[k] : k \in 1..Len(names)} -> RepoFiles]
    /\ file_index' = 0
    /\ docs_pre' = Store
    /\ pc' = "analyzing"
    /\ UNCHANGED <<analyzer_vars, pre, last, n_ops, mermaid_code>>

GenerateDocsFile ==
    /\ pc = "analyzing"
    /\ file_index < Len(python_files)
    /\ LET file_path == python_files[file_index + 1]
           file == repo_files[file_path.base]
           r == loop_step(Store, python_files, file_index, file)
       IN  /\ SetStore(r.st)
           /\ file_index' = r.file_index
           /\ last' = [NoCall EXCEPT !.op = "generate_docs_file",
                                     !.file_path = file_path,
                                     !.file_content = get_file_content(file).value,
                                     !.read_failed = ~file.readable]
    /\ pre' = Store
    /\ n_ops' = n_ops + 1
    /\ UNCHANGED <<pc, python_files, repo_files, docs_pre, mermaid_code>>

\* s.replace(":", "_").replace(".", "_") on one token: a word holds neither
\* character
mermaid_name(s) == CASE s = ":" -> "_" [] s = "." -> "_" [] OTHER -> s

\* f'{name}["{id}"]'
node_declaration(id) == mermaid_name(id) \o "[\"" \o id \o "\"]"

\* f'  {source_name} -->|{rel.rel_type}| {target_name}'
edge_line(rel) ==
    "  " \o mermaid_name(rel.source_id) \o " -->|" \o rel.rel_type \o "| "
         \o mermaid_name(rel.target_id)

\* DocGenie.generate_mermaid_diagram(relationships): the text is the head,
\* the node declarations in the iteration order of a set, then the edge
\* lines in the order of the relationships
generate_mermaid_diagram(relationships) ==
    [head |-> "graph TD",
     nodes |-> {node_declaration(relationships[k].source_id) :
                    k \in 1..Len(relationships)}
                  \cup {node_declaration(relationships[k].target_id) :
                            k \in 1..Len(relationships)},
     edges |-> [k \in 1..Len(relationships) |-> edge_line(relationships[k])]]

\* the loop is over: the relationships go to DocGenie, the clone is removed
GenerateDocsDone ==
    /\ pc = "analyzing"
    /\ file_index >= Len(python_files)
    /\ mermaid_code' = generate_mermaid_diagram(ccg_relationships)
    /\ pc' = "idle"
    /\ python_files' = <<>>
    /\ file_index' = 0
    /\ repo_files' = <<>>
    /\ docs_pre' = EmptyStore
    /\ UNCHANGED <<analyzer_vars, pre, last, n_ops>>

NextDocs == GenerateDocs \/ GenerateDocsFile \/ GenerateDocsDone

SpecDocs == Init /\ [][NextDocs]_vars

-----------------------------------------------------------------------------
(* Properties of analyze_file and query_ccg *)

\* the last operation was analyze_file on a file whose extension has a parser
Analysed == last.op = "analyze_file" /\ splitext(last.file_path) \in parsers

\* what the last operation added
NewIds == DOMAIN ccg_nodes \ DOMAIN pre.ccg_nodes

NewRelIndexes == (Len(pre.ccg_relationships) + 1)..Len(ccg_relationships)

NewModules == {id \in NewIds : ccg_nodes[id].node_type = "module"}

\* a line whose whitespace-trimmed content matches the definition pattern:
\* leading whitespace, the word class or def, whitespace, a word
IsDefinitionLine(line) ==
    \E k \in 1..Len(line), m \in 1..Len(line) :
        /\ \A j \in 1..(k - 1) : line[j] = Space
        /\ line[k] \in {"class", "def"}
        /\ m > k + 1
        /\ \A j \in (k + 1)..(m - 1) : line[j] = Space
        /\ IsWord(line[m])

DefinitionLines(text) == {i \in 1..Len(text) : IsDefinitionLine(text[i])}

\* C1: analyze_file on a file with a parser and N definition lines adds
\* exactly N+1 nodes and exactly N 'contains' relationships, every one of
\* them with the module node of that file as its source.
C1_NodesAndContains ==
    Analysed =>
        LET N == Cardinality(DefinitionLines(last.file_content))
            contains == {k \in NewRelIndexes :
                            ccg_relationships[k].rel_type = "contains"}
        IN  /\ DOMAIN pre.ccg_nodes \subseteq DOMAIN ccg_nodes
            /\ Cardinality(NewIds) = N + 1
            /\ Cardinality(contains) = N
            /\ Cardinality(NewModules) = 1
            /\ \A k \in contains :
                  /\ ccg_relationships[k].source_id \in NewModules
                  /\ ccg_nodes[ccg_relationships[k].source_id].file_path
                        = last.file_path

C1_Witness ==
    /\ Analysed
    /\ Cardinality(DefinitionLines(last.file_content)) = 2
    /\ Cardinality(NewIds) = 3
    /\ pre.node_counter > 0

C1_WitnessNoDefinition ==
    /\ Analysed
    /\ Len(last.file_content) > 0
    /\ DefinitionLines(last.file_content) = {}
    /\ Cardinality(NewIds) = 1

\* the definitions of the last analysed file that start at or before line L
StartedBy(L) ==
    {id \in NewIds : /\ ccg_nodes[id].node_type # "module"
                     /\ ccg_nodes[id].start_line <= L}

\* C2: a 'calls' relationship found on line L has as source the definition
\* of the file with the greatest start_line <= L, and the file's module node
\* when no definition starts at or before L.
C2_EnclosingDefinition ==
    Analysed =>
        \A k \in NewRelIndexes :
            ccg_relationships[k].rel_type = "calls" =>
                LET src == ccg_relationships[k].source_id
                    started == StartedBy(rel_line[k])
                IN  IF started = {}
                    THEN src \in NewModules
                    ELSE /\ src \in started
                         /\ \A d \in started :
                               ccg_nodes[d].start_line <= ccg_nodes[src].start_line

\* a call on a line that two definitions start at or before, and a call on
\* a line before every definition
C2_Witness ==
    /\ Analysed
    /\ \E k \in NewRelIndexes :
          /\ ccg_relationships[k].rel_type = "calls"
          /\ Cardinality(StartedBy(rel_line[k])) = 2
    /\ pre.node_counter > 0

C2_WitnessModule ==
    /\ Analysed
    /\ \E k \in NewRelIndexes :
          /\ ccg_relationships[k].rel_type = "calls"
          /\ StartedBy(rel_line[k]) = {}
          /\ StartedBy(Len(last.file_content)) # {}

\* C3: no 'calls' relationship has a target equal to the name of its source
\* node.
C3_NoSelfReference ==
    \A k \in 1..Len(ccg_relationships) :
        LET rel == ccg_relationships[k]
        IN  (rel.rel_type = "calls" /\ rel.source_id \in DOMAIN ccg_nodes)
                => rel.target_id # ccg_nodes[rel.source_id].name

\* a definition line, whose own name is a call candidate, has been scanned,
\* and a module whose name is called in its text
C3_Witness ==
    /\ n_ops = MaxCalls
    /\ Analysed
    /\ last.file_path.base = APy
    /\ last.file_content = <<CallLine, DefLine>>
    /\ \E k \in NewRelIndexes : ccg_relationships[k].rel_type = "calls"

\* a query symbol and a target are equal under case-insensitive comparison
EqualIgnoringCase(symbol, target) ==
    [k \in 1..Len(symbol) |-> Lower(symbol[k])] = <<Lower(target)>>

\* the 'calls' relationships the query symbol matches, in append order, with
\* the source id replaced by the source node's name
MatchesOf(symbol) ==
    LET sel == SelectSeq(ccg_relationships,
                         LAMBDA rel : /\ rel.rel_type = "calls"
                                      /\ EqualIgnoringCase(symbol, rel.target_id))
    IN  [k \in 1..Len(sel) |->
            [source_id |-> IF sel[k].source_id \in DOMAIN ccg_nodes
                           THEN ccg_nodes[sel[k].source_id].name
                           ELSE "?",
             target_id |-> sel[k].target_id,
             rel_type |-> sel[k].rel_type]]

\* C4 as stated: query_ccg(X) returns the 'calls' relationships whose target
\* equals X under case-insensitive comparison, in append order, rendered by
\* source name.
C4_AsStated ==
    last.op = "query_ccg" => last.results = MatchesOf(last.query)

\* C4 amended: query_ccg(X) returns the 'calls' relationships whose target
\* equals X with its leading and trailing whitespace removed, under
\* case-insensitive comparison, in append order, rendered by source name;
\* the empty list when none matches.
C4_QueryStripped ==
    last.op = "query_ccg" => last.results = MatchesOf(strip(last.query))

C4_Witness ==
    /\ last.op = "query_ccg"
    /\ Len(last.results) >= 2
    /\ \E j, k \in 1..Len(last.results) :
          /\ last.results[j].target_id = "f"
          /\ last.results[k].target_id = "F"
    /\ Len(last.results) < Len(SelectSeq(ccg_relationships,
                                         LAMBDA rel : rel.rel_type = "calls"))

C4_WitnessEmpty ==
    /\ last.op = "query_ccg"
    /\ last.results = <<>>
    /\ \E k \in 1..Len(ccg_relationships) : ccg_relationships[k].rel_type = "calls"

\* C5: every id get_next_node_id issues is new and the counter only grows:
\* every issued id names its own node and no node is overwritten.
C5_FreshIds ==
    /\ node_counter >= pre.node_counter
    /\ Cardinality(DOMAIN ccg_nodes) = node_counter
    /\ DOMAIN ccg_nodes = {"N" \o ToString(n) : n \in 1..node_counter}
    /\ \A id \in DOMAIN pre.ccg_nodes :
          id \in DOMAIN ccg_nodes /\ ccg_nodes[id] = pre.ccg_nodes[id]
    /\ Analysed => node_counter > pre.node_counter

\* the same file analysed twice: two nodes equal in everything but the id
C5_Witness ==
    /\ Analysed
    /\ \E x \in DOMAIN pre.ccg_nodes, y \in NewIds :
          ccg_nodes[x] = ccg_nodes[y] /\ ccg_nodes[x].node_type = "function"

\* two files that share a definition name
C5_WitnessSharedName ==
    /\ Analysed
    /\ \E x \in DOMAIN pre.ccg_nodes, y \in NewIds :
          /\ ccg_nodes[x].name = ccg_nodes[y].name
          /\ ccg_nodes[x].file_path # ccg_nodes[y].file_path

\* C6: the store is append-only: analyze_file leaves the earlier nodes
\* unchanged and the earlier relationships as a prefix of ccg_relationships;
\* query_ccg changes neither the nodes, the relationships nor the counter.
C6_AppendOnly ==
    /\ \A id \in DOMAIN pre.ccg_nodes :
          id \in DOMAIN ccg_nodes /\ ccg_nodes[id] = pre.ccg_nodes[id]
    /\ Len(pre.ccg_relationships) <= Len(ccg_relationships)
    /\ SubSeq(ccg_relationships, 1, Len(pre.ccg_relationships))
          = pre.ccg_relationships
    /\ last.op = "query_ccg" =>
          /\ ccg_nodes = pre.ccg_nodes
          /\ ccg_relationships = pre.ccg_relationships
          /\ node_counter = pre.node_counter

C6_Witness ==
    /\ Analysed
    /\ pre.ccg_relationships # <<>>
    /\ Len(ccg_relationships) > Len(pre.ccg_relationships)
    /\ NewIds # {}

C6_WitnessQuery ==
    /\ last.op = "query_ccg"
    /\ last.results # <<>>

\* C7: every relationship has an existing node as source; a 'contains'
\* relationship goes from a module node to a function or class node of the
\* same file; only 'calls' relationships carry a name as target.
C7_ResolvedEnds ==
    \A k \in 1..Len(ccg_relationships) :
        LET rel == ccg_relationships[k]
        IN  /\ rel.source_id \in DOMAIN ccg_nodes
            /\ rel.rel_type \in {"contains", "calls"}
            /\ rel.rel_type = "contains" =>
                  /\ ccg_nodes[rel.source_id].node_type = "module"
                  /\ rel.target_id \in DOMAIN ccg_nodes
                  /\ ccg_nodes[rel.target_id].node_type \in {"function", "class"}
                  /\ ccg_nodes[rel.target_id].file_path
                        = ccg_nodes[rel.source_id].file_path

C7_Witness ==
    /\ n_ops = MaxCalls
    /\ \E j, k \in 1..Len(ccg_relationships) :
          /\ ccg_relationships[j].rel_type = "contains"
          /\ ccg_relationships[k].rel_type = "calls"
          /\ ccg_relationships[k].target_id \notin
                {ccg_nodes[id].name : id \in DOMAIN ccg_nodes}
          /\ ccg_nodes[ccg_relationships[j].source_id].file_path
                # ccg_nodes[ccg_relationships[k].source_id].file_path

\* C8: analyze_file on a file whose extension has no parser changes neither
\* the nodes, the relationships nor the counter, whatever the text.
C8_NoParserNoChange ==
    (last.op = "analyze_file" /\ splitext(last.file_path) \notin parsers) =>
        /\ ccg_nodes = pre.ccg_nodes
        /\ ccg_relationships = pre.ccg_relationships
        /\ node_counter = pre.node_counter

C8_Witness ==
    /\ last.op = "analyze_file"
    /\ last.file_path.base = ATxt
    /\ DefinitionLines(last.file_content) # {}
    /\ pre.node_counter > 0
    /\ node_counter = pre.node_counter

C8_WitnessHidden ==
    /\ last.op = "analyze_file"
    /\ last.file_path.base = DotPy
    /\ Len(last.file_content) = MaxLines
    /\ node_counter = pre.node_counter

-----------------------------------------------------------------------------
(* Properties of the generate_docs loop *)

\* C9: a file whose read fails in the loop of generate_docs contributes no
\* node and no relationship to the store.
C9_UnreadableSkipped ==
    (last.op = "generate_docs_file" /\ last.read_failed) =>
        /\ ccg_nodes = pre.ccg_nodes
        /\ ccg_relationships = pre.ccg_relationships

\* what a file contributed to a store, by name, kind and origin
Rendered(st, id) ==
    IF id \in DOMAIN st.ccg_nodes
    THEN <<st.ccg_nodes[id].node_type, st.ccg_nodes[id].name,
           st.ccg_nodes[id].start_line>>
    ELSE <<"name", id, 0>>

Contribution(st, file_path) ==
    LET ids == {id \in DOMAIN st.ccg_nodes : st.ccg_nodes[id].file_path = file_path}
        rels == SelectSeq(st.ccg_relationships, LAMBDA rel : rel.source_id \in ids)
    IN  [count |-> Cardinality(ids),
         nodes |-> {st.ccg_nodes[id] : id \in ids},
         relationships |->
            [k \in 1..Len(rels) |->
                <<Rendered(st, rels[k].source_id), Rendered(st, rels[k].target_id),
                  rels[k].rel_type>>]]

\* the loop of generate_docs run over a whole list
RECURSIVE RunLoop(_, _, _)
RunLoop(st, files, index) ==
    IF index >= Len(files) THEN st
    ELSE LET r == loop_step(st, files, index, repo_files[files[index + 1].base])
         IN  RunLoop(r.st, files, r.file_index)

Without(files, k) == SubSeq(files, 1, k - 1) \o SubSeq(files, k + 1, Len(files))

LoopOver == pc = "analyzing" /\ file_index >= Len(python_files)

Failed(k) == ~repo_files[python_files[k].base].readable

\* C10: when the loop of generate_docs is over, every file of the list other
\* than one whose read failed has been analysed, and has contributed the same
\* nodes and relationships (by name, kind and origin) as the loop
\* contributes for it over the list without the failing file.
C10_FailureIsolated ==
    LoopOver =>
        \A k \in 1..Len(python_files) :
            Failed(k) =>
                LET absent == RunLoop(docs_pre, Without(python_files, k), 0)
                IN  \A j \in 1..Len(python_files) \ {k} :
                        /\ Contribution(Store, python_files[j])
                              = Contribution(absent, python_files[j])
                        /\ splitext(python_files[j]) \in parsers =>
                              Contribution(Store, python_files[j]).count
                                 > Contribution(docs_pre, python_files[j]).count

C10_Witness ==
    /\ LoopOver
    /\ Len(python_files) = 2
    /\ Failed(1)
    /\ ~Failed(2)
    /\ Len(Contribution(Store, python_files[2]).relationships) >= 3

C10_WitnessFailsLast ==
    /\ LoopOver
    /\ Len(python_files) = 2
    /\ Failed(2)
    /\ ~Failed(1)
    /\ Contribution(Store, python_files[1]).count >= 2

-----------------------------------------------------------------------------
(* Module names: files whose base name holds the extension's text twice *)

APyPy == <<"a", ".py", ".py">>
ATxtPy == <<"a", ".txt", ".py">>
DotPyPy == <<".py", ".py">>

NameBases == {APy, APyPy, ATxtPy, DotPyPy}

NamePaths == {path_join(local_path, b) : b \in NameBases}

\* analyze_file on a file of such a name
AnalyzeNamedFile ==
    /\ n_ops < MaxCalls
    /\ \E file_path \in NamePaths, file_content \in RepoContents :
          /\ SetStore(analyze_file(Store, file_path, file_content))
          /\ last' = [NoCall EXCEPT !.op = "analyze_file", !.file_path = file_path,
                                    !.file_content = file_content]
    /\ pre' = Store
    /\ n_ops' = n_ops + 1
    /\ UNCHANGED docs_vars

NextNames == AnalyzeNamedFile

SpecNames == Init /\ [][NextNames]_vars

\* the base name minus its final extension suffix only
StemOf(file_path) ==
    LET b == basename(file_path)
    IN  concat(SubSeq(b, 1, Len(b) - 1))

\* C11: the module node that analyze_file creates for a file with a parser
\* is named by the file's base name minus its final extension suffix only,
\* also when the extension's text occurs earlier in the base name.
C11_FinalExtensionOnly ==
    Analysed =>
        /\ Cardinality(NewModules) = 1
        /\ \A id \in NewModules : ccg_nodes[id].name = StemOf(last.file_path)

-----------------------------------------------------------------------------
(* The example of the __main__ block: one file analysed by a fresh analyzer, *)
(* then queried                                                             *)

\* Longest text built from the example's lines, in lines.
MaxSampleLines == 4

Indent == <<" ", " ", " ", " ">>

\* def func_a(x):
FuncALine == <<"def", " ", "func_a", "(", "x", ")", ":">>

\*     return x + 1
ReturnLine == Indent \o <<"return", " ", "x", " ", "+", " ", "1">>

\* class MyClass:
MyClassLine == <<"class", " ", "MyClass", ":">>

\*     def method_b(self, y):
MethodBLine ==
    Indent \o <<"def", " ", "method_b", "(", "self", ",", " ", "y", ")", ":">>

\*         return func_a(y)
CallALine == Indent \o Indent \o <<"return", " ", "func_a", "(", "y", ")">>

\*         return Func_A(y)
CallVariantLine == Indent \o Indent \o <<"return", " ", "Func_A", "(", "y", ")">>

\* dummy_content without its leading line break
SampleText ==
    <<FuncALine, ReturnLine, <<>>, MyClassLine, MethodBLine, CallALine>>

SampleLinePool == {FuncALine, MyClassLine, MethodBLine, CallALine, CallVariantLine}

SampleTexts ==
    UNION {[1..n -> SampleLinePool] : n \in 0..MaxSampleLines} \cup {SampleText}

SamplePath == path_join("", <<"sample", ".py">>)

SampleQueries == {<<"func_a">>, <<"method_b">>}

\* analyzer = CodeAnalyzer(); analyzer.analyze_file(path, content, "test_repo")
AnalyzeSample ==
    /\ n_ops = 0
    /\ \E file_content \in SampleTexts :
          /\ SetStore(analyze_file(Store, SamplePath, file_content))
          /\ last' = [NoCall EXCEPT !.op = "analyze_file", !.file_path = SamplePath,
                                    !.file_content = file_content]
    /\ pre' = Store
    /\ n_ops' = n_ops + 1
    /\ UNCHANGED docs_vars

\* analyzer.query_ccg(query); last keeps the file the graph was built from
QuerySample ==
    /\ n_ops >= 1
    /\ n_ops < MaxCalls
    /\ \E query \in SampleQueries :
          last' = [last EXCEPT !.op = "query_ccg", !.query = query,
                               !.results = query_ccg(ccg_nodes, ccg_relationships,
                                                     query)]
    /\ pre' = Store
    /\ n_ops' = n_ops + 1
    /\ UNCHANGED <<analyzer_vars, docs_vars>>

NextSample == AnalyzeSample \/ QuerySample

SpecSample == Init /\ [][NextSample]_vars

\* the position, on a definition line, of the name it defines; 0 elsewhere
HeaderPos(line) ==
    IF IsDefinitionLine(line)
    THEN CHOOSE m \in 1..Len(line) :
            \E k \in 1..Len(line) :
                /\ \A j \in 1..(k - 1) : line[j] = Space
                /\ line[k] \in {"class", "def"}
                /\ m > k + 1
                /\ \A j \in (k + 1)..(m - 1) : line[j] = Space
                /\ IsWord(line[m])
    ELSE 0

NameAt(line) == line[HeaderPos(line)]

\* the word at position p of the line is textually invoked: an opening
\* parenthesis follows it, whitespace aside, and it is not the name the line
\* defines
InvokedAt(line, p) ==
    /\ IsWord(line[p])
    /\ p # HeaderPos(line)
    /\ \E q \in (p + 1)..Len(line) :
          /\ line[q] = "("
          /\ \A j \in (p + 1)..(q - 1) : line[j] = Space

Positions(text) == UNION {{<<i, p>> : p \in 1..Len(text[i])} : i \in 1..Len(text)}

\* where the text invokes the word X itself
Invocations(text, X) ==
    {ip \in Positions(text) :
        text[ip[1]][ip[2]] = X /\ InvokedAt(text[ip[1]], ip[2])}

\* where the text invokes X or a case variant of X outside the stop-list
VariantInvocations(text, X) ==
    {ip \in Positions(text) :
        /\ Lower(text[ip[1]][ip[2]]) = Lower(X)
        /\ text[ip[1]][ip[2]] \notin Keywords
        /\ InvokedAt(text[ip[1]], ip[2])}

\* the definition line whose lines hold line i: the nearest definition line
\* at or before i; 0 before the first one
Owner(text, i) ==
    LET ds == {d \in DefinitionLines(text) : d <= i}
    IN  IF ds = {} THEN 0 ELSE CHOOSE d \in ds : \A e \in ds : e <= d

\* the definitions, other than those named X, whose lines invoke X
Invokers(text, X) ==
    {d \in DefinitionLines(text) :
        /\ NameAt(text[d]) # X
        /\ \E ip \in Invocations(text, X) : Owner(text, ip[1]) = d}

Defined(text, X) == \E d \in DefinitionLines(text) : NameAt(text[d]) = X

\* the last operation was a query on the graph built from the one file
SampleQueried == last.op = "query_ccg" /\ last.file_path = SamplePath

\* the graph and the answer of the sample.py example
SampleExample ==
    (last.file_content = SampleText /\ last.query = <<"func_a">>) =>
        /\ ccg_nodes =
              [id \in {"N1", "N2", "N3", "N4"} |->
                  CASE id = "N1" -> CCGNode("module", "sample", SamplePath, 1)
                    [] id = "N2" -> CCGNode("function", "func_a", SamplePath, 1)
                    [] id = "N3" -> CCGNode("class", "MyClass", SamplePath, 4)
                    [] id = "N4" -> CCGNode("function", "method_b", SamplePath, 5)]
        /\ ccg_relationships =
              <<CCGRelationship("N1", "N2", "contains"),
                CCGRelationship("N1", "N3", "contains"),
                CCGRelationship("N1", "N4", "contains"),
                CCGRelationship("N4", "func_a", "calls")>>
        /\ last.results = <<CCGRelationship("method_b", "func_a", "calls")>>

\* C13 as stated: on a graph built from one file in which exactly one
\* definition's lines invoke X (X defined in the file, not in the stop-list;
\* a definition of X invoking itself is not counted), query_ccg(X) returns
\* exactly one match, naming that definition; and the sample.py example
\* gives the stated graph and answer.
C13_AsStated ==
    SampleQueried =>
        LET text == last.file_content
            X == last.query[1]
        IN  /\ (/\ X \notin Keywords
                /\ Defined(text, X)
                /\ Cardinality(Invokers(text, X)) = 1) =>
                   /\ Len(last.results) = 1
                   /\ \A d \in Invokers(text, X) :
                         last.results[1].source_id = NameAt(text[d])
            /\ SampleExample

\* C13: on a graph built from one file in which X (defined in the file, not in
\* the stop-list) or a case variant of X is invoked exactly once, on a line
\* of a definition D that does not bear the invoked name, query_ccg(X)
\* returns exactly one match, naming D; and the sample.py example gives the
\* stated graph and answer.
C13_SingleInvocation ==
    SampleQueried =>
        LET text == last.file_content
            X == last.query[1]
            inv == VariantInvocations(text, X)
        IN  /\ (/\ X \notin Keywords
                /\ Defined(text, X)
                /\ Cardinality(inv) = 1) =>
                   \A ip \in inv :
                       LET d == Owner(text, ip[1])
                           w == text[ip[1]][ip[2]]
                       IN  (d # 0 /\ NameAt(text[d]) # w) =>
                               last.results =
                                  <<CCGRelationship(NameAt(text[d]), w, "calls")>>
            /\ SampleExample

C13_Witness ==
    /\ SampleQueried
    /\ last.file_content = SampleText
    /\ last.query = <<"func_a">>
    /\ Len(last.results) = 1

\* one invocation, of a case variant, in the lines of the second definition
C13_WitnessVariant ==
    /\ SampleQueried
    /\ last.file_content = <<FuncALine, MyClassLine, MethodBLine, CallVariantLine>>
    /\ last.query = <<"func_a">>
    /\ last.results = <<CCGRelationship("method_b", "Func_A", "calls")>>

-----------------------------------------------------------------------------
(* Properties of the diagram *)

\* the display name of an end of a relationship: the node's name, or the
\* literal name of a reference target
DisplayName(id) == IF id \in DOMAIN ccg_nodes THEN ccg_nodes[id].name ELSE id

\* generate_docs has written the diagram of the store
DiagramWritten == pc = "idle" /\ mermaid_code.head = "graph TD"

\* C14: every edge line of the diagram that generate_docs writes labels the
\* source and the target of its relationship with the node's display name,
\* not with a raw node id.
C14_EdgesUseDisplayNames ==
    DiagramWritten =>
        /\ Len(mermaid_code.edges) = Len(ccg_relationships)
        /\ \A k \in 1..Len(ccg_relationships) :
              mermaid_code.edges[k] =
                 "  " \o DisplayName(ccg_relationships[k].source_id) \o " -->|"
                      \o ccg_relationships[k].rel_type \o "| "
                      \o DisplayName(ccg_relationships[k].target_id)

-----------------------------------------------------------------------------
(* Properties of the order of ccg_relationships *)

\* the number in each node id
IdNums ==
    LET ids == [n \in 1..node_counter |-> "N" \o ToString(n)]
    IN  [id \in DOMAIN ccg_nodes |-> CHOOSE n \in 1..node_counter : ids[n] = id]

\* the analysis each relationship belongs to, an analysis being known by the
\* number of its module node: the one that created the relationship's source
Blocks ==
    LET num == IdNums
        modules == {num[id] : id \in {i \in DOMAIN ccg_nodes :
                                         ccg_nodes[i].node_type = "module"}}
    IN  [k \in 1..Len(ccg_relationships) |->
            LET s == num[ccg_relationships[k].source_id]
            IN  CHOOSE m \in modules :
                    m <= s /\ \A m2 \in modules : m2 <= s => m2 <= m]

\* the elements of a set of numbers, ascending
Ascending(S) ==
    [k \in 1..Cardinality(S) |->
        CHOOSE p \in S : Cardinality({q \in S : q < p}) = k - 1]

\* the name of the unit holding each line of the text: the nearest definition
\* at or before the line, or the module
Holders(text, module_name) ==
    LET defs == DefinitionLines(text)
    IN  [i \in 1..Len(text) |->
            LET ds == {d \in defs : d <= i}
            IN  IF ds = {} THEN module_name
                ELSE NameAt(text[CHOOSE d \in ds : \A e \in ds : e <= d])]

\* the words the line invokes, left to right, the stop-list and the name of
\* the unit holding the line left out
ReferencesOn(line, holder) ==
    LET at == {p \in 1..Len(line) :
                  /\ IsWord(line[p])
                  /\ line[p] \notin Keywords
                  /\ line[p] # holder
                  /\ \E q \in (p + 1)..Len(line) :
                        /\ line[q] = "("
                        /\ \A j \in (p + 1)..(q - 1) : line[j] = Space}
        ps == Ascending(at)
    IN  [k \in 1..Len(ps) |-> line[ps[k]]]

\* the targets of the relationships the last operation appended for line i
NewCallsOn(i) ==
    LET idx == Ascending({k \in NewRelIndexes :
                             /\ ccg_relationships[k].rel_type = "calls"
                             /\ rel_line[k] = i})
    IN  [k \in 1..Len(idx) |-> ccg_relationships[idx[k]].target_id]

\* C15: in ccg_relationships the relationships of one analysed file form one
\* block, the blocks standing in the order the files were analysed; within a
\* block the 'contains' relationships come first, in ascending start line
\* and ascending id of their targets, then the 'calls' relationships in
\* ascending line order, those of one line left to right.
C15_ScanOrder ==
    /\ LET block == Blocks
           num == IdNums
       IN  \* each relationship against the next one; every clause carries
           \* over to any later one of the block
           \A k \in 1..(Len(ccg_relationships) - 1) :
               /\ block[k] <= block[k + 1]
               /\ block[k] = block[k + 1] =>
                     LET a == ccg_relationships[k]
                         b == ccg_relationships[k + 1]
                     IN  /\ a.rel_type = "calls" => b.rel_type = "calls"
                         /\ (a.rel_type = "contains" /\ b.rel_type = "contains") =>
                               /\ ccg_nodes[a.target_id].start_line
                                     < ccg_nodes[b.target_id].start_line
                               /\ num[a.target_id] < num[b.target_id]
                         /\ (a.rel_type = "calls" /\ b.rel_type = "calls") =>
                               rel_line[k] <= rel_line[k + 1]
    /\ (last.op = "generate_docs_file" /\ splitext(last.file_path) \in parsers) =>
          \A id \in NewModules :
              LET holder == Holders(last.file_content, ccg_nodes[id].name)
              IN  \A i \in 1..Len(last.file_content) :
                      NewCallsOn(i) = ReferencesOn(last.file_content[i], holder[i])

\* two files analysed in one run: the first left two 'contains' and two
\* 'calls' relationships, the second one 'contains' and three 'calls', two of
\* them from one line
C15_Witness ==
    /\ pc = "analyzing"
    /\ last.op = "generate_docs_file"
    /\ file_index = 2
    /\ Len(ccg_relationships) = 8
    /\ Cardinality({Blocks[k] : k \in 1..Len(ccg_relationships)}) = 2
    /\ Len(pre.ccg_relationships) = 4
    /\ last.file_content = <<ClassLine, CallLine>>
    /\ NewCallsOn(2) = <<"a", "f">>

====
